---------------------------- MODULE Spec2Model ----------------------------
(***************************************************************************)
(* Pose tracking and world anchoring of the WebXR object-placement demo.   *)
(*                                                                         *)
(* Two React components are modelled, each from its source file:           *)
(*   App      (src/webxr_test/src/App.jsx)     - session lifecycle,        *)
(*            reticle, placement, anchored rendering, camera streams;      *)
(*   ARScene  (src/webxr_test/src/ARScene.jsx) - the native-API variant.   *)
(* App.jsx does not import ARScene: a page mounts one of the two, and      *)
(* `component` records which.                                              *)
(*                                                                         *)
(* Every step is one run of a handler up to its next await (or its end):   *)
(* the click handlers, the continuations after each awaited host promise,  *)
(* the host's events and one frame of the render loop.  A suspended        *)
(* handler keeps the values its closure captured when it was called.       *)
(* React (18, batching) commits the state a step has set before the next   *)
(* step runs, so `state` holds both the React state of App and what the    *)
(* closures of the last render read; Mounted computes what that render     *)
(* mounts.  Within a frame, useFrame callbacks still read the props of the *)
(* render before the frame.                                                *)
(*                                                                         *)
(* The host (browser, XR runtime, @react-three/xr store) is the            *)
(* environment: each promise settles with any outcome the host can         *)
(* produce.  What is fixed for a device is chosen once, in Init.           *)
(***************************************************************************)
EXTENDS Integers, Sequences, FiniteSets, TLC

(* ------------------------------ bounds -------------------------------- *)
\* concurrent handleEnterAR calls (the button stays until isARSession)
MaxEnter == 2
\* handleEnterAR calls per run of the placement specification
MaxEnterClicks == 2
\* handlePlace calls suspended at an anchor request
MaxPlace == 1
\* placed objects (App)
MaxObjects == 1
\* camera streams the host keeps open at once
MaxStreams == 2
\* inline sessions the host keeps alive at once
MaxInline == 1
\* the clock: Date.now() returns 0..MaxNow
MaxNow == 0
\* placed objects (ARScene)
MaxSceneObjects == 2
\* placed objects (App) in the specification of repeated placement
MaxPlaced == 2

(* ----------------------------- values --------------------------------- *)
NoMatrix == "null"
Identity == "I"
Matrices == {"M1", "M2"}
NoSession == "none"
Modes == {"undefined", "immersive-ar", "immersive-vr", "inline"}
InlineModes == {"undefined", "inline"}
NoStream == 0
NoAnchor == <<>>
NoCamera == ""
Devices == <<"cam1">>
\* Points and angles.  Origin is (0,0,0); "pw" is the point (0,0,-3) and "pu"
\* the point (0,3,0), on the yaw axis; "pwr" is "pw" turned back by the yaw
\* of the camera pose, a point other than "pw".
Origin == "p0"
WorldPoints == {"pw", "pu"}
\* The alpha a deviceorientation event reports, in degrees; beta and gamma
\* are 0 in the events considered.
EventAngles == {"0", "90"}
ZeroRotation == <<"0", "0", "0">>
NoQuaternion == <<>>
\* The model URL input: the bundled default, or emptied by the user; a record
\* of another kind has modelUrl null.
DefaultModelUrl == "modelGlb"
EmptyUrl == ""
NoUrl == "null"
Urls == {DefaultModelUrl, EmptyUrl}
ObjectTypes == {"model", "cube", "sphere"}
\* the 100% and 200% buttons
Scales == {1, 2}

VARIABLES
    component,        \* which of the two components the page mounts
    state,            \* App's useState values
    isHit,            \* Reticle's useState value
    reticle,          \* Reticle's group ref: mounted, visible, matrix
    models,           \* per rendered object: the Model component's refs
    cameraPoseRef,    \* cameraPoseRef.current
    cameraPose,       \* the cameraPose prop App's last render gave the Models
    orientationApi,   \* window.DeviceOrientationEvent, once it has been read
    tracker,          \* the mounted DeviceOrientationTracker, if any
    strayAsk,         \* a permission request of an unmounted tracker is pending
    strayListener,    \* a listener added by an unmounted tracker's request
    (* the device *)
    xrPresent,        \* navigator.xr exists
    arSupport,        \* what isSessionSupported('immersive-ar') does
    sessionMode,      \* the mode the sessions of store.enterAR report
    hasRequestAnchor, \* session.requestAnchor exists
    (* host and library state *)
    storeSession,     \* store.getState().session: NoSession or its mode
    xrEndListener,    \* an 'end' listener of handleEnterAR is on the session
    inlineLive,       \* live sessions of navigator.xr.requestSession('inline')
    inlineListen,     \* those with the 'end' listener of handleEnterAR
    liveStreams,      \* camera MediaStreams whose tracks are live
    now,              \* the latest reading of Date.now()
    (* suspended async handlers of App *)
    enter, enterClicks, exitPc, refresh, place,
    (* ARScene: its refs and its host session *)
    sessionRef, hitTestSourceRef, currentHitMatrixRef, reticleVisible,
    placedObjectsRef, sceneSession, sceneListener, scenePc, rafPending,
    lastSample        \* ARScene: the latest getHitTestResults of the session

deviceVars == <<xrPresent, arSupport, sessionMode, hasRequestAnchor>>

resourceVars == <<storeSession, xrEndListener, inlineLive, inlineListen,
                  liveStreams>>

hostVars == <<resourceVars, now>>

handlerVars == <<enter, enterClicks, exitPc, refresh, place>>

sensorVars == <<orientationApi, tracker, strayAsk, strayListener>>

reactVars == <<state, isHit, reticle, models, cameraPoseRef, cameraPose,
               sensorVars>>

sceneVars == <<sessionRef, hitTestSourceRef, currentHitMatrixRef,
               reticleVisible, placedObjectsRef, sceneSession, sceneListener,
               scenePc, rafPending, lastSample>>

vars == <<component, reactVars, deviceVars, hostVars, handlerVars, sceneVars>>

(* --------------------------- React state ------------------------------ *)
\* A setter call, setX(v).
SetState(p, field, v) == [p EXCEPT ![field] = v]

Set2(p, f1, v1, f2, v2) == SetState(SetState(p, f1, v1), f2, v2)

Set3(p, f1, v1, f2, v2, f3, v3) == SetState(Set2(p, f1, v1, f2, v2), f3, v3)

\* useState initial values of App (lines 462-479)
InitialState ==
    [objects |-> <<>>, isARSession |-> FALSE, arStatus |-> "",
     cameras |-> <<>>, selectedCamera |-> NoCamera, errorDetails |-> "null",
     useFallbackMode |-> FALSE, videoStream |-> NoStream,
     hitMatrix |-> NoMatrix, objectType |-> "model",
     modelUrl |-> DefaultModelUrl, modelScale |-> 1]

\* What a handlePlace call reads from the render it was created in.
InitialClosure ==
    [useFallbackMode |-> FALSE, objectType |-> "model",
     modelUrl |-> DefaultModelUrl, modelScale |-> 1]

IdleEnter == [pc |-> "idle", sel |-> NoCamera, cams |-> <<>>, inl |-> 0]

IdlePlace == [pc |-> "idle", pos |-> "p0", hit |-> NoMatrix,
              hm |-> NoMatrix, closure |-> InitialClosure]

IdleRefresh == [pc |-> "idle", stream |-> NoStream, sel |-> NoCamera]

\* useRef({ position: [0, 0, 0], rotation: [0, 0, 0] })
InitialPose == [position |-> Origin, rotation |-> ZeroRotation,
                quaternion |-> NoQuaternion]

UnmountedReticle == [mounted |-> FALSE, visible |-> FALSE, matrix |-> Identity]

InitApp ==
    \* the mount effect has called refreshCameras, which awaits getUserMedia
    /\ state = SetState(InitialState, "arStatus", "detecting")
    /\ refresh = [IdleRefresh EXCEPT !.pc = "gum"]
    /\ isHit = FALSE
    /\ reticle = UnmountedReticle
    /\ models = <<>>
    /\ cameraPoseRef = InitialPose
    /\ cameraPose = InitialPose
    /\ orientationApi = "unread"
    /\ tracker = "unmounted"
    /\ strayAsk = FALSE /\ strayListener = FALSE
    /\ storeSession = NoSession /\ xrEndListener = FALSE
    /\ inlineLive = {} /\ inlineListen = {}
    /\ liveStreams = {}
    /\ now = 0
    /\ enter = [e \in 1..MaxEnter |-> IdleEnter]
    /\ enterClicks = 0
    /\ exitPc = "idle"
    /\ place = [p \in 1..MaxPlace |-> IdlePlace]

InitScene ==
    /\ sessionRef = FALSE /\ hitTestSourceRef = FALSE
    /\ currentHitMatrixRef = NoMatrix /\ reticleVisible = FALSE
    /\ placedObjectsRef = <<>> /\ sceneSession = "none"
    /\ sceneListener = FALSE /\ scenePc = "idle" /\ rafPending = 0
    /\ lastSample = "never"

\* The devices: without navigator.xr, or without support for immersive-ar,
\* the rest of the XR host is never asked.
InitDevice ==
    /\ xrPresent \in BOOLEAN
    /\ arSupport \in {"true", "false", "throw"}
    /\ sessionMode \in Modes
    /\ hasRequestAnchor \in BOOLEAN
    /\ ~xrPresent => arSupport = "false"
    /\ (arSupport # "true" /\ component = "App")
          => (sessionMode = "immersive-ar" /\ hasRequestAnchor)

Init ==
    /\ component \in {"App", "ARScene"}
    /\ InitApp /\ InitScene /\ InitDevice
    /\ (component = "ARScene") =>
          (xrPresent /\ sessionMode = "immersive-ar" /\ hasRequestAnchor)

(* ------------------------------ rendering ----------------------------- *)
\* new THREE.Vector3().setFromMatrixPosition(m): the translation part of m.
PositionOf(m) ==
    CASE m = "M1" -> "p1"
      [] m = "M2" -> "p2"
      [] OTHER    -> "p0"

\* The matrix of a group rendered with position={pos} and no rotation.
TranslationOf(pos) ==
    CASE pos = "p1" -> "T1"
      [] pos = "p2" -> "T2"
      [] pos = "pw" -> "Tw"
      [] pos = "pu" -> "Tu"
      [] OTHER      -> Identity

\* Model({anchor, hitMatrix, anchored, cameraPose}): the component it returns.
ModelKind(obj) ==
    IF obj.anchor # NoAnchor \/ obj.hitMatrix # NoMatrix THEN "ARAnchored"
    ELSE IF obj.anchored THEN "Fallback"
    ELSE "Plain"

\* ARAnchoredModel's effect: the fixed matrix is saved only the first time.
SaveFixedMatrix(obj, m) ==
    IF ModelKind(obj) = "ARAnchored" /\ obj.hitMatrix # NoMatrix
       /\ m.fixedMatrixRef = NoMatrix
    THEN [m EXCEPT !.fixedMatrixRef = obj.hitMatrix]
    ELSE m

\* A freshly mounted Model: its group has the identity matrix, except that
\* the plain variant is rendered at position={pos}.  queried: what the anchor
\* pose query of the component's latest frame callback returned.  position:
\* the group's position, which FallbackAnchoredModel writes.  poseAtMount:
\* the rotation of cameraPoseRef.current when the object was committed (a
\* history value: the code keeps none).
MountModel(obj) ==
    [key |-> obj.id, fixedMatrixRef |-> NoMatrix, queried |-> "none",
     matrix |-> IF ModelKind(obj) = "Plain" THEN TranslationOf(obj.position)
                ELSE Identity,
     position |-> IF ModelKind(obj) = "Plain" THEN obj.position ELSE Origin,
     poseAtMount |-> IF ModelKind(obj) = "Fallback"
                     THEN cameraPoseRef.rotation ELSE ZeroRotation]

\* objects.map(obj => <Model key={obj.id} .../>): React matches the children
\* in order while the keys agree (objects only grows at its end or is
\* emptied); a matched component keeps its refs, the others are mounted;
\* then the effects run.
ReconcileModels(old, objs) ==
    [i \in 1..Len(objs) |->
        SaveFixedMatrix(objs[i],
            IF i <= Len(old) /\ old[i].key = objs[i].id THEN old[i]
            ELSE MountModel(objs[i]))]

\* {!useFallbackMode && isARSession && <Reticle .../>}
ShowsReticle(s) == s.isARSession /\ ~s.useFallbackMode

\* What window.DeviceOrientationEvent can be on a device: absent, present,
\* or present with a requestPermission function (iOS 13+).  It is the same
\* at every read; nothing reads it before the first tracker mounts.
OrientationApis == {"absent", "plain", "asks"}

\* The effect of a DeviceOrientationTracker that mounts on a device with the
\* API api: it returns, adds its listener, or requests the permission.
TrackerMounted(api) ==
    CASE api = "absent" -> "silent"
      [] api = "plain"  -> "listening"
      [] api = "asks"   -> "asking"

\* {useFallbackMode && <DeviceOrientationTracker .../>}: the tracker mounts
\* and its effect runs, or it unmounts and the effect's cleanup removes the
\* listener; a permission request that is still pending stays pending.
MountTracker ==
    IF state'.useFallbackMode /\ ~state.useFallbackMode
    THEN /\ orientationApi' \in OrientationApis
         /\ orientationApi # "unread" => orientationApi' = orientationApi
         /\ tracker' = TrackerMounted(orientationApi')
         /\ UNCHANGED <<strayAsk, strayListener>>
    ELSE IF state.useFallbackMode /\ ~state'.useFallbackMode
    THEN /\ tracker' = "unmounted"
         /\ strayAsk' = (strayAsk \/ tracker = "asking")
         /\ UNCHANGED <<orientationApi, strayListener>>
    ELSE UNCHANGED sensorVars

\* The render React commits at the end of a step, for the state the step
\* leaves: Reticle is mounted or unmounted (a new Reticle starts with
\* isHit = false and an invisible group), and the Models are reconciled.
\* hitNow, reticleNow, modelsNow: what the step itself gave the mounted ones.
Mounted(hitNow, reticleNow, modelsNow) ==
    /\ reticle' = IF ShowsReticle(state')
                  THEN (IF reticle.mounted THEN reticleNow
                        ELSE [UnmountedReticle EXCEPT !.mounted = TRUE])
                  ELSE UnmountedReticle
    /\ isHit' = IF ShowsReticle(state') /\ reticle.mounted THEN hitNow
                ELSE FALSE
    /\ models' = ReconcileModels(modelsNow, state'.objects)
    \* App renders when its state has changed, and hands the Models the
    \* object cameraPoseRef holds at that time; no render writes the ref
    /\ cameraPose' = IF state' # state THEN cameraPoseRef ELSE cameraPose
    /\ cameraPoseRef' = cameraPoseRef
    /\ MountTracker

\* a step that is no frame
Rerender == Mounted(isHit, reticle, models)

(* ------------------------- host resources ----------------------------- *)
\* The id the host gives the next MediaStream / inline session.
FreshId(used, max) ==
    CHOOSE i \in (1..max) \ used : \A j \in (1..max) \ used : i <= j

CanOpenStream == (1..MaxStreams) \ liveStreams # {}

CanOpenInline == (1..MaxInline) \ inlineLive # {}

\* the 'end' listeners without setIsARSession(false)
EndListenerStatusOnly(p) == SetState(p, "arStatus", "ended")

\* the 'end' listeners of handleEnterAR (lines 707-710 and 763-766)
EndListener(p) == Set2(p, "isARSession", FALSE, "arStatus", "ended")

(* ---------------------------- handleEnterAR --------------------------- *)
FallbackSites == {"fb1", "fb2", "fb3"}

\* catch block of startFallbackMode, before it rethrows
FallbackFail(p) ==
    Set3(p, "arStatus", "fallbackFailed", "isARSession", FALSE,
         "useFallbackMode", FALSE)

\* startFallbackMode up to its await (or its synchronous throw), called from
\* one of the three call sites of handleEnterAR with the state p set so far.
\* fb1: session object empty; fb2: inline mode undefined; fb3: inline failed.
\* selectedCamera and cameras are those of the closure of handleEnterAR.
CallFallback(e, p, site) ==
    LET sel  == enter[e].sel
        cams == enter[e].cams
        p1   == IF sel = NoCamera /\ cams # <<>>
                THEN SetState(p, "selectedCamera", cams[1]) ELSE p
    IN  IF sel = NoCamera
        THEN \* throws 'no camera selected'; each caller's catch sets a status.
             \* The throw at fb2 is caught by catch (inlineError), which calls
             \* startFallbackMode again; it throws again.
             /\ state' = SetState(FallbackFail(p1), "arStatus",
                              IF site = "fb1" THEN "startFailed"
                                              ELSE "startFailedHint")
             /\ enter' = [enter EXCEPT ![e] = IdleEnter]
        ELSE /\ state' = p1
             /\ enter' = [enter EXCEPT ![e].pc = site, ![e].inl = 0]

\* The click on the enter button, up to the first await.  slots: how many
\* calls may be suspended at once; counted: whether the click is counted.
EnterClick(slots, counted) ==
    /\ component = "App"
    /\ ~state.isARSession                \* the enter button is rendered
    /\ IF counted THEN /\ enterClicks < MaxEnterClicks
                       /\ enterClicks' = enterClicks + 1
                  ELSE UNCHANGED enterClicks
    /\ \E e \in 1..slots :
        /\ enter[e].pc = "idle"
        /\ \A f \in 1..slots : enter[f].pc = "idle" => e <= f
        /\ IF ~xrPresent
           THEN /\ state' = SetState(state, "arStatus", "noWebXR")
                /\ UNCHANGED enter
           ELSE /\ state' = SetState(state, "arStatus", "starting")
                /\ enter' = [enter EXCEPT ![e] =
                       [pc |-> "isSupported", sel |-> state.selectedCamera,
                        cams |-> IF state.selectedCamera = NoCamera
                                 THEN state.cameras ELSE <<>>,
                        inl |-> 0]]
    /\ Rerender
    /\ UNCHANGED <<component, deviceVars, hostVars, exitPc, refresh, place,
                   sceneVars>>

\* await navigator.xr.isSessionSupported('immersive-ar') settles
EnterSupported(e) ==
    /\ enter[e].pc = "isSupported"
    /\ IF arSupport = "true"
       THEN /\ state' = SetState(state, "arStatus", "confirmed")
            /\ enter' = [enter EXCEPT ![e].pc = "enterAR"]
       ELSE /\ state' = SetState(state, "arStatus",
                             IF arSupport = "throw" THEN "checkFailed"
                                                    ELSE "notSupported")
            /\ enter' = [enter EXCEPT ![e] = IdleEnter]
    /\ Rerender
    /\ UNCHANGED <<component, deviceVars, hostVars, enterClicks, exitPc,
                   refresh, place, sceneVars>>

\* handleEnterAR without lines 739-766: a throw of store.enterAR goes straight
\* to startFallbackMode.
EnterARSettlesSkipsInline(e) ==
    /\ enter[e].pc = "enterAR"
    /\ \E outcome \in {"session", "same", "throw"} :
        \/ /\ outcome = "session"
           /\ storeSession = NoSession
           /\ storeSession' = sessionMode
           /\ xrEndListener' = FALSE
           /\ enter' = [enter EXCEPT ![e].pc = "wait100"]
           /\ UNCHANGED state
        \/ /\ outcome = "same"
           /\ enter' = [enter EXCEPT ![e].pc = "wait100"]
           /\ UNCHANGED <<state, storeSession, xrEndListener>>
        \/ /\ outcome = "throw"
           /\ CallFallback(e, Set2(state, "errorDetails", "enterAR",
                                   "arStatus", "fallbackTrying"), "fb3")
           /\ UNCHANGED <<storeSession, xrEndListener>>
    /\ Rerender
    /\ UNCHANGED <<component, deviceVars, inlineLive, inlineListen,
                   liveStreams, now, enterClicks, exitPc, refresh, place,
                   sceneVars>>

\* await store.enterAR(sessionInit) settles.  It resolves with a new session in
\* the store (only when the store holds none), resolves leaving the store as
\* it is, or throws; on a throw the catch requests an inline session.
EnterARSettles(e) ==
    /\ enter[e].pc = "enterAR"
    /\ \E outcome \in {"session", "same", "throw"} :
        \/ /\ outcome = "session"
           /\ storeSession = NoSession
           /\ storeSession' = sessionMode
           /\ xrEndListener' = FALSE
           /\ enter' = [enter EXCEPT ![e].pc = "wait100"]
           /\ UNCHANGED state
        \/ /\ outcome = "same"
           /\ enter' = [enter EXCEPT ![e].pc = "wait100"]
           /\ UNCHANGED <<state, storeSession, xrEndListener>>
        \/ /\ outcome = "throw"
           /\ state' = Set2(state, "errorDetails", "enterAR",
                            "arStatus", "inlineTrying")
           /\ enter' = [enter EXCEPT ![e].pc = "inline"]
           /\ UNCHANGED <<storeSession, xrEndListener>>
    /\ Rerender
    /\ UNCHANGED <<component, deviceVars, inlineLive, inlineListen,
                   liveStreams, now, enterClicks, exitPc, refresh, place,
                   sceneVars>>

\* The status each session mode gets (lines 676-704).
ModeStatus(mode) ==
    CASE mode = "undefined"    -> "startedUndefined"
      [] mode = "immersive-ar" -> "startedAR"
      [] mode = "immersive-vr" -> "startedVR"
      [] OTHER                 -> "startedOther"

\* handleEnterAR calling store.enterAR again when the session object is
\* empty after the timer.
EnterAfterWaitRetries(e) ==
    /\ enter[e].pc = "wait100"
    /\ IF storeSession # NoSession
       THEN /\ state' = Set2(state, "isARSession", TRUE,
                             "arStatus", ModeStatus(storeSession))
            /\ xrEndListener' = TRUE
            /\ enter' = [enter EXCEPT ![e] = IdleEnter]
       ELSE /\ state' = SetState(state, "arStatus", "sessionNull")
            /\ enter' = [enter EXCEPT ![e].pc = "enterAR"]
            /\ UNCHANGED xrEndListener
    /\ Rerender
    /\ UNCHANGED <<component, deviceVars, storeSession, inlineLive,
                   inlineListen, liveStreams, now, enterClicks, exitPc,
                   refresh, place, sceneVars>>

\* After the 100 ms timer: the session is validated.  Every mode sets
\* isARSession and registers the 'end' listener; an empty session object
\* starts the fallback mode.
EnterAfterWait(e) ==
    /\ enter[e].pc = "wait100"
    /\ IF storeSession # NoSession
       THEN /\ state' = Set2(state, "isARSession", TRUE,
                             "arStatus", ModeStatus(storeSession))
            /\ xrEndListener' = TRUE
            /\ enter' = [enter EXCEPT ![e] = IdleEnter]
       ELSE /\ CallFallback(e, SetState(state, "arStatus", "sessionNull"),
                            "fb1")
            /\ UNCHANGED xrEndListener
    /\ Rerender
    /\ UNCHANGED <<component, deviceVars, storeSession, inlineLive,
                   inlineListen, liveStreams, now, enterClicks, exitPc,
                   refresh, place, sceneVars>>

\* await navigator.xr.requestSession('inline', ...) settles.
EnterInlineSettles(e) ==
    /\ enter[e].pc = "inline"
    /\ \E outcome \in InlineModes \cup {"reject"} :
        IF outcome = "reject"
        THEN /\ CallFallback(e, SetState(state, "arStatus", "fallbackTrying"),
                             "fb3")
             /\ UNCHANGED <<inlineLive, inlineListen>>
        ELSE /\ CanOpenInline
             /\ LET i == FreshId(inlineLive, MaxInline)
                IN  /\ inlineLive' = inlineLive \cup {i}
                    /\ IF outcome = "undefined"
                       THEN \* inlineSession.end() is called and awaited
                            /\ enter' = [enter EXCEPT ![e].pc = "inlineEnd",
                                                      ![e].inl = i]
                            /\ UNCHANGED <<state, inlineListen>>
                       ELSE /\ state' = Set2(state, "arStatus",
                                   "inlineActive", "isARSession", TRUE)
                            /\ inlineListen' = inlineListen \cup {i}
                            /\ enter' = [enter EXCEPT ![e] = IdleEnter]
    /\ Rerender
    /\ UNCHANGED <<component, deviceVars, storeSession, xrEndListener,
                   liveStreams, now, enterClicks, exitPc, refresh, place,
                   sceneVars>>

\* await inlineSession.end() settles (resolved or rejected: the catch only
\* logs); the session has ended, and startFallbackMode is called.
EnterInlineEndSettles(e) ==
    /\ enter[e].pc = "inlineEnd"
    /\ inlineLive' = inlineLive \ {enter[e].inl}
    /\ inlineListen' = inlineListen \ {enter[e].inl}
    /\ CallFallback(e, state, "fb2")
    /\ Rerender
    /\ UNCHANGED <<component, deviceVars, storeSession, xrEndListener,
                   liveStreams, now, enterClicks, exitPc, refresh, place,
                   sceneVars>>

\* What startFallbackMode sets once its stream is open (lines 814-817).
FallbackStarted(p, s) ==
    SetState(Set3(p, "videoStream", s, "useFallbackMode", TRUE,
                  "isARSession", TRUE),
             "arStatus", "fallbackStarted")

\* await navigator.mediaDevices.getUserMedia(...) of startFallbackMode settles.
EnterGumSettles(e) ==
    /\ enter[e].pc \in FallbackSites
    /\ \E ok \in BOOLEAN :
        IF ok
        THEN /\ CanOpenStream
             /\ LET s == FreshId(liveStreams, MaxStreams)
                IN  /\ liveStreams' = liveStreams \cup {s}
                    /\ state' = FallbackStarted(state, s)
             /\ enter' = [enter EXCEPT ![e] = IdleEnter]
        ELSE /\ UNCHANGED liveStreams
             /\ IF enter[e].pc = "fb2"
                THEN \* rethrown into catch (inlineError): second call
                     /\ state' = SetState(FallbackFail(state), "arStatus",
                                          "fallbackTrying")
                     /\ enter' = [enter EXCEPT ![e].pc = "fb3"]
                ELSE /\ state' = SetState(FallbackFail(state), "arStatus",
                               IF enter[e].pc = "fb1" THEN "startFailed"
                                                      ELSE "startFailedHint")
                     /\ enter' = [enter EXCEPT ![e] = IdleEnter]
    /\ Rerender
    /\ UNCHANGED <<component, deviceVars, storeSession, xrEndListener,
                   inlineLive, inlineListen, now, enterClicks, exitPc,
                   refresh, place, sceneVars>>

(* ------------------------- host session events ------------------------ *)
\* The host ends the store's session (the user leaves AR through the
\* browser, tracking is lost for good, ...): its 'end' listeners run.
HostEndSession ==
    /\ component = "App"
    /\ storeSession # NoSession
    /\ storeSession' = NoSession
    /\ xrEndListener' = FALSE
    /\ state' = IF xrEndListener THEN EndListener(state) ELSE state
    /\ Rerender
    /\ UNCHANGED <<component, deviceVars, inlineLive, inlineListen,
                   liveStreams, now, handlerVars, sceneVars>>

HostEndInline(i) ==
    /\ i \in inlineLive
    /\ \A e \in 1..MaxEnter : ~(enter[e].pc = "inlineEnd" /\ enter[e].inl = i)
    /\ inlineLive' = inlineLive \ {i}
    /\ inlineListen' = inlineListen \ {i}
    /\ state' = IF i \in inlineListen THEN EndListener(state) ELSE state
    /\ Rerender
    /\ UNCHANGED <<component, deviceVars, storeSession, xrEndListener,
                   liveStreams, now, handlerVars, sceneVars>>

(* ----------------------------- handleExitAR --------------------------- *)
\* handleExitAR also emptying the scene.
ExitFlagsClearingScene(p) ==
    SetState(Set3(p, "useFallbackMode", FALSE, "isARSession", FALSE,
                  "arStatus", "exited"),
             "objects", <<>>)

ExitFlags(p) ==
    Set3(p, "useFallbackMode", FALSE, "isARSession", FALSE,
         "arStatus", "exited")

\* The click on the exit button: stops the tracks of videoStream, then ends
\* the store's session (the session ends at the call: the store drops it and
\* its 'end' listeners run) and awaits the promise.
ExitClick ==
    /\ component = "App"
    /\ state.isARSession                 \* the exit button is rendered
    /\ exitPc = "idle"
    /\ liveStreams' = liveStreams \ {state.videoStream}
    /\ UNCHANGED <<inlineLive, inlineListen>>
    /\ LET p1 == IF state.videoStream # NoStream
                 THEN SetState(state, "videoStream", NoStream) ELSE state
       IN  IF storeSession # NoSession
           THEN /\ storeSession' = NoSession
                /\ xrEndListener' = FALSE
                /\ state' = IF xrEndListener THEN EndListener(p1) ELSE p1
                /\ exitPc' = "end"
           ELSE /\ state' = ExitFlags(p1)
                /\ UNCHANGED <<storeSession, xrEndListener, exitPc>>
    /\ Rerender
    /\ UNCHANGED <<component, deviceVars, now, enter, enterClicks, refresh,
                   place, sceneVars>>

\* await session.end() settles (a rejection is caught and logged).
ExitEndSettles ==
    /\ exitPc = "end"
    /\ exitPc' = "idle"
    /\ state' = ExitFlags(state)
    /\ Rerender
    /\ UNCHANGED <<component, deviceVars, hostVars, enter, enterClicks,
                   refresh, place, sceneVars>>

(* ---------------------------- refreshCameras -------------------------- *)
\* The click on the refresh button, up to the await of getUserMedia.
RefreshClick ==
    /\ component = "App"
    /\ refresh.pc = "idle"
    /\ refresh' = [pc |-> "gum", stream |-> NoStream,
                   sel |-> state.selectedCamera]
    /\ state' = SetState(state, "arStatus", "detecting")
    /\ Rerender
    /\ UNCHANGED <<component, deviceVars, hostVars, enter, enterClicks,
                   exitPc, place, sceneVars>>

\* getUserMedia({video: true}) settles: the host has opened a stream, whose
\* tracks the continuation stops, or the request is rejected.
RefreshGumSettles ==
    /\ refresh.pc = "gum"
    /\ \E ok \in BOOLEAN :
        IF ok
        THEN /\ CanOpenStream
             /\ LET s == FreshId(liveStreams, MaxStreams)
                IN  /\ liveStreams' = liveStreams \cup {s}
                    /\ refresh' = [refresh EXCEPT !.pc = "stop", !.stream = s]
             /\ UNCHANGED state
        ELSE /\ refresh' = [refresh EXCEPT !.pc = "enum"]
             /\ state' = SetState(state, "arStatus", "permNeeded")
             /\ UNCHANGED liveStreams
    /\ Rerender
    /\ UNCHANGED <<component, deviceVars, storeSession, xrEndListener,
                   inlineLive, inlineListen, now, enter, enterClicks, exitPc,
                   place, sceneVars>>

\* the continuation: stream.getTracks().forEach(track => track.stop())
RefreshStopTracks ==
    /\ refresh.pc = "stop"
    /\ liveStreams' = liveStreams \ {refresh.stream}
    /\ refresh' = [refresh EXCEPT !.pc = "enum", !.stream = NoStream]
    /\ state' = SetState(state, "arStatus", "permGranted")
    /\ Rerender
    /\ UNCHANGED <<component, deviceVars, storeSession, xrEndListener,
                   inlineLive, inlineListen, now, enter, enterClicks, exitPc,
                   place, sceneVars>>

\* await enumerateDevices() settles with the video devices found.
RefreshEnumSettles ==
    /\ refresh.pc = "enum"
    /\ refresh' = IdleRefresh
    /\ \E outcome \in {"none", "found", "reject"} :
        state' =
          CASE outcome = "reject" -> SetState(state, "arStatus", "detectFailed")
            [] outcome = "none" ->
                 Set2(state, "arStatus", "noCameras", "cameras", <<>>)
            [] OTHER ->
                 LET p1 == SetState(state, "cameras", Devices)
                     p2 == IF refresh.sel = NoCamera
                              \/ \A k \in 1..Len(Devices) : Devices[k] # refresh.sel
                           THEN SetState(p1, "selectedCamera", Devices[1])
                           ELSE p1
                 IN  SetState(p2, "arStatus", "foundCameras")
    /\ Rerender
    /\ UNCHANGED <<component, deviceVars, hostVars, enter, enterClicks,
                   exitPc, place, sceneVars>>

(* ------------------------------ frame loop ---------------------------- *)
\* ARAnchoredModel with the anchor branch writing the pose the anchor was
\* created at instead of the pose queried in this frame.
ARAnchoredFrameAtCommitPose(obj, m, xr, q) ==
    IF obj.anchor # NoAnchor /\ xr = "ok" /\ q \in Matrices
    THEN [m EXCEPT !.matrix = obj.anchor[1], !.queried = q]
    ELSE IF m.fixedMatrixRef # NoMatrix
         THEN [m EXCEPT !.matrix = m.fixedMatrixRef, !.queried = "none"]
         ELSE [m EXCEPT !.queried = "none"]

\* ARAnchoredModel without lines 193-201: the fixed matrix is replayed only
\* in a frame that has an XR frame and a reference space.
ARAnchoredFrameOnlyInXR(obj, m, xr, q) ==
    IF obj.anchor # NoAnchor /\ xr = "ok" /\ q \in Matrices
    THEN [m EXCEPT !.matrix = q, !.queried = q]
    ELSE IF m.fixedMatrixRef # NoMatrix /\ xr = "ok"
         THEN [m EXCEPT !.matrix = m.fixedMatrixRef, !.queried = "none"]
         ELSE [m EXCEPT !.queried = "none"]

\* ARAnchoredModel putting the group back to the identity when the anchor
\* pose query gives nothing and there is no fixed matrix.
ARAnchoredFrameResetOnFailure(obj, m, xr, q) ==
    IF obj.anchor # NoAnchor /\ xr = "ok" /\ q \in Matrices
    THEN [m EXCEPT !.matrix = q, !.queried = q]
    ELSE IF m.fixedMatrixRef # NoMatrix
         THEN [m EXCEPT !.matrix = m.fixedMatrixRef, !.queried = "none"]
         ELSE [m EXCEPT !.matrix = Identity, !.queried = "none"]

\* useFrame of ARAnchoredModel.  xr: "noframe" (no XR frame), "nospace" (no
\* reference space), "ok"; q: what xrFrame.getPose(anchor.anchorSpace, ...)
\* does: a pose matrix, "nopose" or "throw".
ARAnchoredFrame(obj, m, xr, q) ==
    IF obj.anchor # NoAnchor /\ xr = "ok" /\ q \in Matrices
    THEN [m EXCEPT !.matrix = q, !.queried = q]
    ELSE IF m.fixedMatrixRef # NoMatrix
         THEN [m EXCEPT !.matrix = m.fixedMatrixRef, !.queried = "none"]
         ELSE [m EXCEPT !.queried = "none"]
              \* anchor.matrix is undefined for an XRAnchor: no write

\* value * Math.PI / 180, applied to what it is given: 90 becomes pi/2 and
\* pi/2 becomes pi*pi/360.
DegToRad(a) ==
    CASE a = "0" -> "0"
      [] a = "90" -> "pi/2"
      [] a = "pi/2" -> "pi*pi/360"

\* -gamma, of the one gamma the events considered report.
Negate(a) == CASE a = "0" -> "0"

\* new THREE.Quaternion().setFromEuler(new THREE.Euler(x, y, z, 'YXZ')): the
\* rotation by these angles; Invert: quaternion.invert().
SetFromEuler(rot) == <<"turn", rot>>
Invert(q) == <<IF q[1] = "turn" THEN "back" ELSE "turn", q[2]>>

\* vector.applyQuaternion(q).  A rotation by zero angles moves no point; the
\* rotations that occur are about the y axis, on which "pu" lies.
ApplyQuaternion(v, q) ==
    IF q[2] = ZeroRotation \/ v = "pu" \/ v = Origin THEN v
    ELSE CASE v = "pw" /\ q[1] = "back" -> "pwr"
           [] v = "pw" /\ q[1] = "turn" -> "pwl"

\* worldPos.clone().sub(new THREE.Vector3(...cameraPose.position)): the only
\* camera position there is is the origin.
SubPosition(v, p) == CASE p = Origin -> v

\* FallbackAnchoredModel writing only on the branch that has a quaternion.
FallbackFrameQuaternionOnly(obj, m, pose) ==
    IF pose.quaternion # NoQuaternion
    THEN [m EXCEPT !.position =
             ApplyQuaternion(SubPosition(obj.position, pose.position),
                             Invert(pose.quaternion))]
    ELSE m

\* useFrame of FallbackAnchoredModel with its worldPosition and cameraPose
\* props: the offset from the camera position, turned back by the camera
\* rotation (the pose's quaternion if it has one, else its Euler angles).
FallbackFrame(obj, m, pose) ==
    LET localPos == SubPosition(obj.position, pose.position)
    IN  IF pose.quaternion # NoQuaternion
        THEN [m EXCEPT !.position =
                 ApplyQuaternion(localPos, Invert(pose.quaternion))]
        ELSE [m EXCEPT !.position =
                 ApplyQuaternion(localPos, Invert(SetFromEuler(pose.rotation)))]

ModelFrame(obj, m, xr, q) ==
    IF ModelKind(obj) = "ARAnchored" THEN ARAnchoredFrame(obj, m, xr, q)
    ELSE IF ModelKind(obj) = "Fallback" THEN FallbackFrame(obj, m, cameraPose)
    ELSE m

\* useFrame of Reticle, with the hitMatrix prop of the last render.
ReticleFrame(r, hitMatrix) ==
    IF hitMatrix # NoMatrix
    THEN [mounted |-> TRUE, visible |-> TRUE, matrix |-> hitMatrix]
    ELSE [r EXCEPT !.visible = FALSE]

\* What Reticle's useFrame passes to setIsHit.
ReticleHit(hitMatrix) == hitMatrix # NoMatrix

\* One frame of the render loop: the hit-test callback (only in a frame of
\* the store's session, once its hit-test source exists), then the useFrame
\* callbacks of Reticle and of every rendered Model, in mount order; then
\* React renders what the callbacks have set.
Frame ==
    /\ component = "App"
    /\ \E sample \in {"skip", "empty"} \cup Matrices,
          xr \in {"noframe", "nospace", "ok"},
          q \in [1..Len(models) -> Matrices \cup {"nopose", "throw"}] :
        /\ sample # "skip" => (storeSession # NoSession
                               /\ ~state.useFallbackMode)
        /\ (xr # "noframe") <=> (storeSession # NoSession)
        /\ \A i \in 1..Len(models) :
              (state.objects[i].anchor = NoAnchor \/ xr # "ok")
                 => q[i] = "nopose"
        /\ state' = IF sample = "skip" THEN state
                    ELSE SetState(state, "hitMatrix",
                             IF sample = "empty" THEN NoMatrix ELSE sample)
        /\ Mounted(IF reticle.mounted THEN ReticleHit(state.hitMatrix)
                   ELSE isHit,
                   IF reticle.mounted THEN ReticleFrame(reticle, state.hitMatrix)
                   ELSE reticle,
                   [i \in 1..Len(models) |->
                       ModelFrame(state.objects[i], models[i], xr, q[i])])
    /\ UNCHANGED <<component, deviceVars, hostVars, handlerVars, sceneVars>>

(* ------------------------------ handlePlace --------------------------- *)
\* objectType, modelUrl, modelScale and useFallbackMode of the current render.
Closure ==
    [useFallbackMode |-> state.useFallbackMode,
     objectType |-> state.objectType, modelUrl |-> state.modelUrl,
     modelScale |-> state.modelScale]

InFlight == {p \in 1..MaxPlace : place[p].pc # "idle"}

\* The record handlePlace appends (lines 1009-1021); t: Date.now().
NewObject(pos, closure, anchor, fixed, t) ==
    [id |-> t, type |-> closure.objectType, position |-> pos,
     anchored |-> (closure.useFallbackMode \/ anchor # NoAnchor
                   \/ fixed # NoMatrix),
     anchor |-> anchor, hitMatrix |-> fixed,
     modelUrl |-> IF closure.objectType = "model" THEN closure.modelUrl
                  ELSE NoUrl,
     scale |-> closure.modelScale]

\* setObjects(prev => [...prev, {id: Date.now(), ...}]): the clock has not
\* gone back since it was last read.
AppendObject(pos, closure, anchor, fixed) ==
    \E t \in now..MaxNow :
        /\ now' = t
        /\ state' = SetState(state, "objects",
               Append(state.objects,
                      NewObject(pos, closure, anchor, fixed, t)))

\* if (!anchor && hitMatrix) fixedHitMatrix = hitMatrix.clone()
FixedFallback(hm) == hm

\* handlePlace appending a provisional record before it awaits the anchor
\* request, and the final record after it.
HandlePlaceAppendsEarly(pos, hit) ==
    LET hitMatrix == state.hitMatrix
        fb        == state.useFallbackMode
        closure   == Closure
    IN
    IF state.isARSession /\ ~fb /\ storeSession # NoSession
    THEN \E refSpace \in {"ok", "throw"} :
           IF refSpace = "ok" /\ hasRequestAnchor
              /\ (hit # NoMatrix \/ hitMatrix # NoMatrix)
           THEN \E p \in 1..MaxPlace :
                  /\ place[p].pc = "idle"
                  /\ \A r \in 1..MaxPlace : place[r].pc = "idle" => p <= r
                  /\ place' = [place EXCEPT ![p] =
                         [pc |-> IF hit # NoMatrix THEN "anchor1"
                                 ELSE "anchor2",
                          pos |-> pos, hit |-> hit, hm |-> hitMatrix,
                          closure |-> closure]]
                  /\ AppendObject(pos, closure, NoAnchor, FixedFallback(hitMatrix))
           ELSE /\ AppendObject(pos, closure, NoAnchor, FixedFallback(hitMatrix))
                /\ UNCHANGED place
    ELSE /\ AppendObject(pos, closure, NoAnchor, NoMatrix)
         /\ UNCHANGED place

\* handlePlace(position, hitTestResult) up to its first await or its end,
\* with the isARSession, useFallbackMode and hitMatrix of its closure.
HandlePlace(pos, hit) ==
    LET hitMatrix == state.hitMatrix
        fb        == state.useFallbackMode
        closure   == Closure
    IN
    IF state.isARSession /\ ~fb /\ storeSession # NoSession
    THEN \E refSpace \in {"ok", "throw"} :
           IF refSpace = "ok" /\ hasRequestAnchor
              /\ (hit # NoMatrix \/ hitMatrix # NoMatrix)
           THEN \E p \in 1..MaxPlace :
                  /\ place[p].pc = "idle"
                  /\ \A r \in 1..MaxPlace : place[r].pc = "idle" => p <= r
                  /\ place' = [place EXCEPT ![p] =
                         [pc |-> IF hit # NoMatrix THEN "anchor1"
                                 ELSE "anchor2",
                          pos |-> pos, hit |-> hit, hm |-> hitMatrix,
                          closure |-> closure]]
                  /\ UNCHANGED <<state, now>>
           ELSE /\ AppendObject(pos, closure, NoAnchor, FixedFallback(hitMatrix))
                /\ UNCHANGED place
    ELSE /\ AppendObject(pos, closure, NoAnchor, NoMatrix)
         /\ UNCHANGED place

\* The bound on the run: objects placed and being placed stay below limit.
RoomFor(limit) == Len(state.objects) + Cardinality(InFlight) < limit

RoomForObject == RoomFor(MaxObjects)

\* Whether the click handler of Reticle treats the click as armed.
Armed == isHit

\* onClick of Reticle's click target: armed iff isHit (and the ref is set).
ReticleClickUpTo(limit) ==
    /\ component = "App"
    /\ reticle.mounted
    /\ RoomFor(limit)
    /\ IF Armed
       THEN HandlePlace(PositionOf(reticle.matrix), state.hitMatrix)
       ELSE UNCHANGED <<state, place, now>>
    /\ Rerender
    /\ UNCHANGED <<component, deviceVars, resourceVars, enter, enterClicks,
                   exitPc, refresh, sceneVars>>

ReticleClick == ReticleClickUpTo(MaxObjects)

\* FallbackClickHandler's canvas click: onPlace(worldPosition), the point
\* three units along the ray from the canvas camera through the click.
FallbackClickUpTo(limit) ==
    /\ component = "App"
    /\ state.useFallbackMode
    /\ RoomFor(limit)
    /\ \E worldPosition \in WorldPoints : HandlePlace(worldPosition, NoMatrix)
    /\ Rerender
    /\ UNCHANGED <<component, deviceVars, resourceVars, enter, enterClicks,
                   exitPc, refresh, sceneVars>>

FallbackClick == FallbackClickUpTo(MaxObjects)

\* A deviceorientation event while DeviceOrientationTracker is mounted.  The
\* tracker passes on an event whose angles are all non-null, converted to
\* radians; handlePoseUpdate converts what it is given once more and puts a
\* new pose object into cameraPoseRef.  No state is set: nothing renders.
PoseUpdate ==
    /\ component = "App"
    /\ tracker = "listening" \/ strayListener
    /\ \E alpha \in EventAngles :
         LET orientation == [alpha |-> DegToRad(alpha), beta |-> DegToRad("0"),
                             gamma |-> DegToRad("0")]
             rotation == <<DegToRad(orientation.beta),
                           DegToRad(orientation.alpha),
                           Negate(DegToRad(orientation.gamma))>>
         IN  cameraPoseRef' = [position |-> Origin, rotation |-> rotation,
                               quaternion |-> SetFromEuler(rotation)]
    /\ UNCHANGED <<component, state, isHit, reticle, models, cameraPose,
                   sensorVars, deviceVars, hostVars, handlerVars, sceneVars>>

\* DeviceOrientationEvent.requestPermission() of the mounted tracker settles:
\* 'granted' adds the listener; another response does nothing and a
\* rejection is logged (console.error).  No state is set.
SensorPermissionSettles ==
    /\ tracker = "asking"
    /\ \E response \in {"granted", "denied", "reject"} :
         tracker' = IF response = "granted" THEN "listening" ELSE "silent"
    /\ UNCHANGED <<component, state, isHit, reticle, models, cameraPoseRef,
                   cameraPose, orientationApi, strayAsk, strayListener,
                   deviceVars, hostVars, handlerVars, sceneVars>>

\* The pending requests of trackers that have unmounted settle: the `then`
\* callback adds the listener all the same, after the cleanup has run.
StrayPermissionSettles ==
    /\ strayAsk
    /\ strayAsk' = FALSE
    /\ \E response \in {"granted", "denied", "reject"} :
         strayListener' = (strayListener \/ response = "granted")
    /\ UNCHANGED <<component, state, isHit, reticle, models, cameraPoseRef,
                   cameraPose, orientationApi, tracker,
                   deviceVars, hostVars, handlerVars, sceneVars>>

\* The anchor a successful session.requestAnchor returns: it is created at
\* the pose it was requested for.
AnchorAt(m) == <<m>>

\* handlePlace switching to the fallback mode when no anchor was created.
FinishPlaceDowngrades(p, anchor) ==
    /\ \E t \in now..MaxNow :
         /\ now' = t
         /\ state' = LET obj == NewObject(place[p].pos, place[p].closure, anchor,
                                   IF anchor = NoAnchor
                                   THEN FixedFallback(place[p].hm)
                                   ELSE NoMatrix, t)
                          p1 == SetState(state, "objects",
                                         Append(state.objects, obj))
                      IN  IF anchor = NoAnchor
                          THEN SetState(p1, "useFallbackMode", TRUE)
                          ELSE p1
    /\ place' = [place EXCEPT ![p] = IdlePlace]

\* After the awaited anchor requests: the record gets the anchor, or, if
\* there is none, the fixed matrix.
FinishPlace(p, anchor) ==
    /\ AppendObject(place[p].pos, place[p].closure, anchor,
                    IF anchor = NoAnchor THEN FixedFallback(place[p].hm)
                                         ELSE NoMatrix)
    /\ place' = [place EXCEPT ![p] = IdlePlace]

\* await session.requestAnchor(hitTestResult, referenceSpace) settles: with
\* an anchor (only while the session lives) or with a rejection.
PlaceAnchor1Settles(p) ==
    /\ place[p].pc = "anchor1"
    /\ \E ok \in BOOLEAN :
        /\ ok => storeSession # NoSession
        /\ IF ok THEN FinishPlace(p, AnchorAt(place[p].hit))
           ELSE IF place[p].hm # NoMatrix
                THEN /\ place' = [place EXCEPT ![p].pc = "anchor2"]
                     /\ UNCHANGED <<state, now>>
                ELSE FinishPlace(p, NoAnchor)
    /\ Rerender
    /\ UNCHANGED <<component, deviceVars, resourceVars, enter, enterClicks,
                   exitPc, refresh, sceneVars>>

\* await session.requestAnchor(referenceSpace, {pose}) settles.
PlaceAnchor2Settles(p) ==
    /\ place[p].pc = "anchor2"
    /\ \E ok \in BOOLEAN :
        /\ ok => storeSession # NoSession
        /\ FinishPlace(p, IF ok THEN AnchorAt(place[p].hm) ELSE NoAnchor)
    /\ Rerender
    /\ UNCHANGED <<component, deviceVars, resourceVars, enter, enterClicks,
                   exitPc, refresh, sceneVars>>

\* the clear button
ClearScene ==
    /\ component = "App"
    /\ state.objects # <<>>
    /\ state' = SetState(state, "objects", <<>>)
    /\ Rerender
    /\ UNCHANGED <<component, deviceVars, hostVars, handlerVars, sceneVars>>

\* The type buttons: setObjectType('model' | 'cube' | 'sphere').
SetObjectType ==
    /\ component = "App"
    /\ \E type \in ObjectTypes \ {state.objectType} :
         state' = SetState(state, "objectType", type)
    /\ Rerender
    /\ UNCHANGED <<component, deviceVars, hostVars, handlerVars, sceneVars>>

\* The URL input, shown while objectType is 'model': setModelUrl(value).
SetModelUrl ==
    /\ component = "App"
    /\ state.objectType = "model"
    /\ \E value \in Urls \ {state.modelUrl} :
         state' = SetState(state, "modelUrl", value)
    /\ Rerender
    /\ UNCHANGED <<component, deviceVars, hostVars, handlerVars, sceneVars>>

\* The size buttons, shown while isARSession: setModelScale(1 | 2).
SetModelScale ==
    /\ component = "App"
    /\ state.isARSession
    /\ \E scale \in Scales \ {state.modelScale} :
         state' = SetState(state, "modelScale", scale)
    /\ Rerender
    /\ UNCHANGED <<component, deviceVars, hostVars, handlerVars, sceneVars>>

ControlSteps == SetObjectType \/ SetModelUrl \/ SetModelScale

\* A JavaScript string that counts as true: not null and not empty.
Truthy(url) == url # NoUrl /\ url # EmptyUrl

\* The props objects.map gives <Model> for a record (lines 1508-1520):
\* modelUrl={obj.modelUrl || modelUrl}, scale={obj.scale || 1}.
ModelProps(obj) ==
    [type |-> obj.type,
     modelUrl |-> IF Truthy(obj.modelUrl) THEN obj.modelUrl
                  ELSE state.modelUrl,
     scale |-> obj.scale]

\* What Model and its variants draw for these props: the loaded model at
\* its scale, the cube, or else the sphere.
Drawn(props) ==
    IF props.type = "model" /\ Truthy(props.modelUrl)
    THEN <<"model", props.modelUrl, props.scale>>
    ELSE IF props.type = "cube" THEN <<"cube">> ELSE <<"sphere">>

(* ------------------------------- ARScene ------------------------------ *)
appVars == <<reactVars, deviceVars, hostVars, handlerVars>>

SetupSteps == {"space1", "space2", "viewer", "source"}

\* The await that follows each awaited setup call of startAR / startHitTest
\* (lines 93, 94, 127, 128); after the last one the setup is finished.
NextSetup(pc) ==
    CASE pc = "space1" -> "space2"
      [] pc = "space2" -> "viewer"
      [] pc = "viewer" -> "source"
      [] OTHER         -> "idle"

\* window.startARScene(): startAR up to its first await.
StartAR ==
    /\ component = "ARScene"
    /\ scenePc = "idle"
    /\ scenePc' = IF xrPresent THEN "isSupported" ELSE "idle"
    /\ UNCHANGED <<component, appVars, sessionRef, hitTestSourceRef,
                   currentHitMatrixRef, reticleVisible, placedObjectsRef,
                   sceneSession, sceneListener, rafPending, lastSample>>

\* await navigator.xr.isSessionSupported('immersive-ar') settles; a
\* rejection is outside the try block and ends startAR.
StartSupported ==
    /\ scenePc = "isSupported"
    /\ scenePc' = IF arSupport = "true" THEN "request" ELSE "idle"
    /\ UNCHANGED <<component, appVars, sessionRef, hitTestSourceRef,
                   currentHitMatrixRef, reticleVisible, placedObjectsRef,
                   sceneSession, sceneListener, rafPending, lastSample>>

\* await navigator.xr.requestSession('immersive-ar', ...) settles: with a
\* session (the host has no other immersive session), stored in sessionRef
\* at once, or with a rejection, caught: startAR returns false.
StartRequestSettles ==
    /\ scenePc = "request"
    /\ \E ok \in BOOLEAN :
        IF ok
        THEN /\ sceneSession # "live"
             /\ sceneSession' = "live"
             /\ sceneListener' = FALSE
             /\ sessionRef' = TRUE
             /\ rafPending' = 0
             /\ lastSample' = "never"
             /\ scenePc' = "space1"
        ELSE /\ scenePc' = "idle"
             /\ UNCHANGED <<sceneSession, sceneListener, sessionRef,
                            rafPending, lastSample>>
    /\ UNCHANGED <<component, appVars, hitTestSourceRef, currentHitMatrixRef,
                   reticleVisible, placedObjectsRef>>

\* One awaited setup call settles.  It resolves only while the session is
\* live; a rejection is caught and startAR returns false.  After the last
\* one the first frame is requested and the 'end' listener is registered.
StartSetupSettles ==
    /\ scenePc \in SetupSteps
    /\ \E ok \in BOOLEAN :
        /\ ok => sceneSession = "live"
        /\ IF ~ok
           THEN /\ scenePc' = "idle"
                /\ UNCHANGED <<hitTestSourceRef, rafPending, sceneListener>>
           ELSE /\ scenePc' = NextSetup(scenePc)
                /\ IF scenePc = "source"
                   THEN /\ hitTestSourceRef' = TRUE
                        /\ rafPending' = rafPending + 1
                        /\ sceneListener' = TRUE
                   ELSE UNCHANGED <<hitTestSourceRef, rafPending,
                                    sceneListener>>
    /\ UNCHANGED <<component, appVars, sessionRef, currentHitMatrixRef,
                   reticleVisible, placedObjectsRef, sceneSession, lastSample>>

\* The host ends the session: its frame callbacks are dropped and its 'end'
\* listener, if registered, clears the refs (lines 109-116).
SceneSessionEnds ==
    /\ component = "ARScene"
    /\ sceneSession = "live"
    /\ sceneSession' = "ended"
    /\ rafPending' = 0
    /\ sceneListener' = FALSE
    /\ IF sceneListener
       THEN /\ sessionRef' = FALSE
            /\ hitTestSourceRef' = FALSE
            /\ currentHitMatrixRef' = NoMatrix
            /\ reticleVisible' = FALSE
       ELSE UNCHANGED <<sessionRef, hitTestSourceRef, currentHitMatrixRef,
                        reticleVisible>>
    /\ UNCHANGED <<component, appVars, placedObjectsRef, scenePc, lastSample>>

\* onXRFrame requesting the next frame a second time where it renders.
XRFrameRequestsTwice ==
    /\ component = "ARScene"
    /\ sceneSession = "live"
    /\ rafPending > 0
    /\ IF ~sessionRef
       THEN /\ rafPending' = rafPending - 1
            /\ UNCHANGED <<currentHitMatrixRef, reticleVisible, lastSample>>
       ELSE /\ \E pose \in BOOLEAN,
                  sample \in {"empty", "nullpose"} \cup Matrices :
                 IF ~pose \/ ~hitTestSourceRef
                 THEN /\ sample = "empty"
                      /\ rafPending' = rafPending
                      /\ UNCHANGED <<currentHitMatrixRef, reticleVisible,
                                     lastSample>>
                 ELSE /\ lastSample' = sample
                      /\ rafPending' = IF sample = "nullpose" THEN rafPending
                                       ELSE rafPending + 1
                      /\ IF sample \in Matrices
                         THEN /\ currentHitMatrixRef' = sample
                              /\ reticleVisible' = TRUE
                         ELSE IF sample = "empty"
                         THEN /\ currentHitMatrixRef' = NoMatrix
                              /\ reticleVisible' = FALSE
                         ELSE UNCHANGED <<currentHitMatrixRef, reticleVisible>>
    /\ UNCHANGED <<component, appVars, sessionRef, hitTestSourceRef,
                   placedObjectsRef, sceneSession, sceneListener, scenePc>>

\* onXRFrame(t, frame).  pose: frame.getViewerPose returned a pose; sample:
\* getHitTestResults is empty, or its first result has the pose matrix
\* `sample`, or hit.getPose returns null ("nullpose": reading
\* hitPose.transform throws, and the callback ends there).
XRFrame ==
    /\ component = "ARScene"
    /\ sceneSession = "live"
    /\ rafPending > 0
    /\ IF ~sessionRef
       THEN /\ rafPending' = rafPending - 1
            /\ UNCHANGED <<currentHitMatrixRef, reticleVisible, lastSample>>
       ELSE /\ rafPending' = rafPending      \* this one ran, the next is asked
            /\ \E pose \in BOOLEAN,
                  sample \in {"empty", "nullpose"} \cup Matrices :
                 IF ~pose \/ ~hitTestSourceRef
                 THEN /\ sample = "empty"
                      /\ UNCHANGED <<currentHitMatrixRef, reticleVisible,
                                     lastSample>>
                 ELSE /\ lastSample' = sample
                      /\ IF sample \in Matrices
                         THEN /\ currentHitMatrixRef' = sample
                              /\ reticleVisible' = TRUE
                         ELSE IF sample = "empty"
                         THEN /\ currentHitMatrixRef' = NoMatrix
                              /\ reticleVisible' = FALSE
                         ELSE UNCHANGED <<currentHitMatrixRef, reticleVisible>>
    /\ UNCHANGED <<component, appVars, sessionRef, hitTestSourceRef,
                   placedObjectsRef, sceneSession, sceneListener, scenePc>>

\* How onXRFrame ends once it has read the hit-test results `sample`: there
\* is no try block in it, and hitPose.transform of a null hitPose throws.
OnXRFrameCompletion(sample) ==
    IF sample = "nullpose" THEN "throws" ELSE "returns"

\* placeObject's guard (line 201)
SceneArmed == currentHitMatrixRef # NoMatrix /\ reticleVisible

\* object.matrix.copy(currentHitMatrixRef.current), matrixAutoUpdate = false
SceneObject(m) == [matrix |-> m]

\* The window click handler: placeObject, if sessionRef holds a session.
\* objectType: 'cube', 'sphere', 'model' with a model URL, or anything else.
SceneClick ==
    /\ component = "ARScene"
    /\ Len(placedObjectsRef) < MaxSceneObjects
    /\ \E objectType \in {"cube", "sphere", "model", "other"} :
        placedObjectsRef' =
            IF sessionRef /\ SceneArmed /\ objectType # "other"
            THEN Append(placedObjectsRef, SceneObject(currentHitMatrixRef))
            ELSE placedObjectsRef
    /\ UNCHANGED <<component, appVars, sessionRef, hitTestSourceRef,
                   currentHitMatrixRef, reticleVisible, sceneSession,
                   sceneListener, scenePc, rafPending, lastSample>>

SceneSteps ==
    \/ StartAR
    \/ StartSupported
    \/ StartRequestSettles
    \/ StartSetupSettles
    \/ SceneSessionEnds
    \/ XRFrame
    \/ SceneClick

(* --------------------------- specifications --------------------------- *)
\* handleEnterAR, for `slots` calls suspended at once
EnterSteps(slots, counted) ==
    \/ EnterClick(slots, counted)
    \/ \E e \in 1..slots : EnterSupported(e)
    \/ \E e \in 1..slots : EnterARSettles(e)
    \/ \E e \in 1..slots : EnterAfterWait(e)
    \/ \E e \in 1..slots : EnterInlineSettles(e)
    \/ \E e \in 1..slots : EnterInlineEndSettles(e)
    \/ \E e \in 1..slots : EnterGumSettles(e)

\* how a session ends: by the host, or through handleExitAR
EndSteps ==
    \/ HostEndSession
    \/ \E i \in 1..MaxInline : HostEndInline(i)
    \/ ExitClick
    \/ ExitEndSettles

\* refreshCameras once called
RefreshSteps ==
    \/ RefreshGumSettles
    \/ RefreshStopTracks
    \/ RefreshEnumSettles

PlaceStepsUpTo(limit) ==
    \/ Frame
    \/ ReticleClickUpTo(limit)
    \/ FallbackClickUpTo(limit)
    \/ PoseUpdate
    \/ SensorPermissionSettles
    \/ StrayPermissionSettles
    \/ \E p \in 1..MaxPlace : PlaceAnchor1Settles(p)
    \/ \E p \in 1..MaxPlace : PlaceAnchor2Settles(p)
    \/ ClearScene

PlaceSteps == PlaceStepsUpTo(MaxObjects)

\* Placement and rendering: everything but repeated entry.  The user enters
\* AR at most MaxEnterClicks times and leaves the refresh button alone (the
\* refreshCameras of the mount effect runs).
Next ==
    EnterSteps(1, TRUE) \/ EndSteps \/ RefreshSteps \/ PlaceSteps \/ SceneSteps

Spec == Init /\ [][Next]_vars

\* The session lifecycle for any number of entries, exits and camera
\* refreshes, one handleEnterAR at a time; no frames, no placement.
SessionNext ==
    EnterSteps(1, FALSE) \/ EndSteps \/ RefreshClick \/ RefreshSteps

InitSession == Init /\ component = "App" /\ hasRequestAnchor = TRUE

SpecSession == InitSession /\ [][SessionNext]_vars

\* Re-entrant handleEnterAR: up to MaxEnter calls suspended at once (the
\* enter button stays until isARSession is set); the refresh button is left
\* alone.
ReentryNext == EnterSteps(MaxEnter, FALSE) \/ EndSteps \/ RefreshSteps

SpecReentry == InitSession /\ [][ReentryNext]_vars

\* The user leaves the page alone once the fallback mode has started: the
\* enter and exit buttons are clicked only while videoStream is null (only
\* startFallbackMode sets it, only handleExitAR clears it).  Handlers that
\* are already suspended run on.
UnattendedNext ==
    \/ (state.videoStream = NoStream /\ EnterClick(MaxEnter, FALSE))
    \/ (state.videoStream = NoStream /\ ExitClick)
    \/ \E e \in 1..MaxEnter : EnterSupported(e)
    \/ \E e \in 1..MaxEnter : EnterARSettles(e)
    \/ \E e \in 1..MaxEnter : EnterAfterWait(e)
    \/ \E e \in 1..MaxEnter : EnterInlineSettles(e)
    \/ \E e \in 1..MaxEnter : EnterInlineEndSettles(e)
    \/ \E e \in 1..MaxEnter : EnterGumSettles(e)
    \/ HostEndSession
    \/ \E i \in 1..MaxInline : HostEndInline(i)
    \/ ExitEndSettles
    \/ RefreshSteps

SpecUnattended == InitSession /\ [][UnattendedNext]_vars

\* Repeated placement in App: up to MaxPlaced objects, on a device whose
\* sessions report the mode immersive-ar.  The user enters AR once; no
\* sensor event arrives.
PlacingNext ==
    \/ (enterClicks = 0 /\ EnterClick(1, TRUE))
    \/ EnterSupported(1)
    \/ EnterARSettles(1)
    \/ EnterAfterWait(1)
    \/ EnterInlineSettles(1)
    \/ EnterInlineEndSettles(1)
    \/ EnterGumSettles(1)
    \/ EndSteps
    \/ RefreshSteps
    \/ Frame
    \/ ReticleClickUpTo(MaxPlaced)
    \/ FallbackClickUpTo(MaxPlaced)
    \/ \E p \in 1..MaxPlace : PlaceAnchor1Settles(p)
    \/ \E p \in 1..MaxPlace : PlaceAnchor2Settles(p)
    \/ ClearScene

InitPlacing == Init /\ component = "App" /\ sessionMode = "immersive-ar"

SpecPlacing == InitPlacing /\ [][PlacingNext]_vars

\* The type, URL and size controls used while objects are placed in the
\* fallback mode.  The user enters AR once and does not leave it.
ControlsNext ==
    \/ (enterClicks = 0 /\ EnterClick(1, TRUE))
    \/ EnterSupported(1)
    \/ EnterARSettles(1)
    \/ EnterAfterWait(1)
    \/ EnterInlineSettles(1)
    \/ EnterInlineEndSettles(1)
    \/ EnterGumSettles(1)
    \/ RefreshSteps
    \/ FallbackClickUpTo(MaxPlaced)
    \/ ClearScene
    \/ ControlSteps

SpecControls == InitSession /\ [][ControlsNext]_vars

\* Every promise a handleEnterAR call awaits settles and its 100 ms timer
\* fires: no continuation stays enabled for ever without running.
EnterSettling ==
    /\ WF_vars(EnterSupported(1))
    /\ WF_vars(EnterARSettles(1))
    /\ WF_vars(EnterAfterWait(1))
    /\ WF_vars(EnterInlineSettles(1))
    /\ WF_vars(EnterInlineEndSettles(1))
    /\ WF_vars(EnterGumSettles(1))

\* Up to MaxEnterClicks entries, one handleEnterAR at a time, with exits,
\* host end events and the camera refresh of the mount effect.
SettlingNext == EnterSteps(1, TRUE) \/ EndSteps \/ RefreshSteps

SpecSettling == InitSession /\ [][SettlingNext]_vars /\ EnterSettling

(* ------------------------------- claims ------------------------------- *)
\* C1: wherever a placement click can be handled, the reticle is armed (App:
\* isHit; ARScene: reticle.visible and currentHitMatrixRef non-null) if and
\* only if the most recent hit-test sample delivered was non-empty.  In App
\* the hit-test callback stores each sample in hitMatrix, so hitMatrix is the
\* most recent sample.
C1_ArmedIffLastSampleNonEmpty ==
    /\ (component = "App" /\ reticle.mounted)
          => (Armed <=> state.hitMatrix # NoMatrix)
    /\ (component = "ARScene" /\ sessionRef)
          => (SceneArmed <=> lastSample \notin {"never", "empty"})

\* C1, the state the claim excludes: an empty sample was delivered, and a
\* click would still be treated as armed.
C1_ArmedAfterEmptySample ==
    /\ component = "App" /\ reticle.mounted
    /\ Armed /\ state.hitMatrix = NoMatrix
    /\ storeSession # NoSession

\* C2: a click that arrives while the most recent hit-test sample is empty
\* adds no object: objects (App; nor does it start a placement) and
\* placedObjectsRef (ARScene) stay as they are.
C2_UnarmedClickAddsNothing ==
    [][ /\ (ReticleClick /\ state.hitMatrix = NoMatrix)
            => (state'.objects = state.objects /\ place' = place)
        /\ (SceneClick /\ lastSample \in {"never", "empty"})
            => placedObjectsRef' = placedObjectsRef ]_vars

\* C3: a record with an anchor holds no fixed matrix, and after every frame
\* whose anchor pose query returned a pose, the group's matrix is that
\* queried pose (whatever pose the anchor was created at).
C3_AnchorRecordFollowsQueriedPose ==
    \A i \in 1..Len(state.objects) :
        state.objects[i].anchor # NoAnchor =>
            /\ state.objects[i].hitMatrix = NoMatrix
            /\ ModelKind(state.objects[i]) = "ARAnchored"
            /\ (models[i].queried \in Matrices
                   => models[i].matrix = models[i].queried)

\* C3, its case: an anchored object whose latest query returned a pose other
\* than the pose it was placed at.
C3_QueriedPoseDiffers ==
    \E i \in 1..Len(state.objects) :
        /\ state.objects[i].anchor # NoAnchor
        /\ models[i].queried \in Matrices
        /\ models[i].queried # state.objects[i].anchor[1]

\* C4: a placement committed at hit pose P (an armed reticle click while the
\* hit matrix is P) for which no anchor is obtained (requestAnchor missing,
\* the reference space request throws, every awaited request rejects, or
\* there is no session to ask) appends exactly one object, with no anchor
\* and with hitMatrix = P, and leaves arStatus and errorDetails as they are.
\* The commit ends in the click itself (no request was awaited) or when the
\* last awaited request settles without an anchor.
C4_FailedAnchorGivesFixedMatrix ==
    [][ \A P \in Matrices :
          LET n       == Len(state'.objects)
              grew    == n = Len(state.objects) + 1
              atClick == /\ ReticleClick /\ Armed /\ state.hitMatrix = P
                         /\ place' = place
              atSettle == \E p \in 1..MaxPlace :
                            /\ place[p].pc # "idle" /\ place[p].hit = P
                            /\ place'[p].pc = "idle"
                            /\ ~(grew /\ state'.objects[n].anchor # NoAnchor)
          IN  (atClick \/ atSettle) =>
                /\ grew
                /\ state'.objects[n].anchor = NoAnchor
                /\ state'.objects[n].hitMatrix = P
                /\ state'.arStatus = state.arStatus
                /\ state'.errorDetails = state.errorDetails ]_vars

C6_NoObjectAfterSessionEnd ==
    [][ \A p \in 1..MaxPlace :
          (place[p].pc # "idle" /\ storeSession = NoSession
           /\ place'[p].pc = "idle")
             => state'.objects = state.objects ]_vars

\* C7: in no reachable state is an XR session (the store's or an inline
\* one) live together with an open fallback camera stream, also when two
\* handleEnterAR calls interleave.  The fallback streams are the live
\* streams other than the one refreshCameras opened and is about to stop.
C7_OneTierHoldsResources ==
    ~( (storeSession # NoSession \/ inlineLive # {})
       /\ liveStreams \ {refresh.stream} # {} )

\* C8: at most one camera MediaStream has live tracks at any time.
C8_AtMostOneLiveStream == Cardinality(liveStreams) <= 1

\* C9: when handleExitAR completes (at the click if the store holds no
\* session, else when session.end() has settled), no session created by
\* handleEnterAR is live, no camera stream of the fallback mode has live
\* tracks, and isARSession and useFallbackMode are false.
C9_ExitReleasesEverything ==
    [][ ((ExitClick /\ exitPc' = "idle") \/ ExitEndSettles)
          => /\ storeSession' = NoSession
             /\ inlineLive' = {}
             /\ liveStreams' \ {refresh'.stream} = {}
             /\ ~state'.isARSession
             /\ ~state'.useFallbackMode ]_vars

\* C10: the native tier (isARSession, not the fallback mode, and a session
\* in the store, on which placements request anchors) is held only with a
\* session whose mode is 'immersive-ar'.
C10_NativeTierOnlyForImmersiveAR ==
    (state.isARSession /\ ~state.useFallbackMode /\ storeSession # NoSession)
        => storeSession = "immersive-ar"

\* C11: on a store session whose mode is 'inline' or undefined, an armed
\* click at hit pose P issues no anchor request (no handlePlace call is left
\* awaiting session.requestAnchor) and appends the fixed-matrix record
\* holding P.
C11_DegradedTierSkipsAnchorRequest ==
    [][ \A P \in Matrices :
          (/\ ReticleClick /\ Armed /\ state.hitMatrix = P
           /\ storeSession \in {"inline", "undefined"})
          => LET n == Len(state'.objects)
             IN  /\ place' = place
                 /\ n = Len(state.objects) + 1
                 /\ state'.objects[n].anchor = NoAnchor
                 /\ state'.objects[n].hitMatrix = P ]_vars

\* C12: when the validated session of the store reports 'immersive-vr',
\* handleEnterAR leaves useFallbackMode true.
C12_VRSessionDowngradesToFallback ==
    [][ \A e \in 1..MaxEnter :
          (EnterAfterWait(e) /\ storeSession = "immersive-vr")
             => state'.useFallbackMode ]_vars

\* C13: after a throw of store.enterAR the tiers are tried in the order
\* inline, then sensor fallback.  A handleEnterAR call reaches a
\* startFallbackMode call of its catch blocks only from the inline request
\* (rejected, or a session of undefined mode that it has ended first) or from
\* the failed first fallback attempt; a camera stream is stored only by a
\* call suspended in startFallbackMode; and an inline session with a defined
\* mode ends the call in the inline tier (isARSession, useFallbackMode as
\* before) with no stream opened.
C13_FallbackOnlyAfterInline ==
    [][ /\ \A e \in 1..MaxEnter :
            LET from == enter[e].pc
                to   == enter'[e].pc
            IN  /\ (to = "fb3" /\ from # "fb3") => from \in {"inline", "fb2"}
                /\ (to = "fb2" /\ from # "fb2") => from = "inlineEnd"
                /\ (to = "inlineEnd" /\ from # "inlineEnd")
                      => (from = "inline" /\ enter'[e].inl \in inlineLive')
                /\ (from # "idle" /\ to = "idle"
                    /\ state'.arStatus = "startFailedHint")
                      => from \in {"inline", "inlineEnd", "fb3"}
                /\ (EnterInlineSettles(e) /\ inlineListen' # inlineListen)
                      => /\ to = "idle"
                         /\ state'.isARSession
                         /\ state'.useFallbackMode = state.useFallbackMode
                         /\ state'.videoStream = state.videoStream
                         /\ liveStreams' = liveStreams
        /\ (state'.videoStream # state.videoStream
            /\ state'.videoStream # NoStream)
              => \E e \in 1..MaxEnter : enter[e].pc \in FallbackSites ]_vars

\* C13, its case: store.enterAR threw, the inline session reported an
\* undefined mode and was ended, and startFallbackMode awaits its stream.
C13_FallbackAfterUndefinedInline ==
    \E e \in 1..MaxEnter :
        /\ enter[e].pc = "fb2"
        /\ state.errorDetails = "enterAR"
        /\ inlineLive = {}

\* C14: when navigator.xr is absent, or isSessionSupported('immersive-ar')
\* returns false or throws, the enter-AR request goes on to a lower tier: the
\* handleEnterAR call is not over at that point.
C14_MissingCapabilityDowngrades ==
    [][ /\ (EnterClick(1, FALSE) /\ ~xrPresent)
              => \E e \in 1..MaxEnter : enter'[e].pc # "idle"
        /\ \A e \in 1..MaxEnter :
              (EnterSupported(e) /\ arSupport # "true")
                 => enter'[e].pc # "idle" ]_vars

\* C15: a handleEnterAR call whose session requests have all failed
\* (store.enterAR threw and the inline request gave no usable session, or
\* store.enterAR left no session) ends in the sensor fallback, also on a
\* device without a camera: when the call is over, useFallbackMode and
\* isARSession are true.
C15_FailedRequestEndsInFallback ==
    [][ \A e \in 1..MaxEnter :
          (/\ enter[e].pc \in {"wait100", "inline", "inlineEnd"}
                                 \cup FallbackSites
           /\ enter[e].pc = "wait100" => storeSession = NoSession
           /\ inlineListen' = inlineListen      \* no inline session is kept
           /\ enter'[e].pc = "idle")
             => (state'.useFallbackMode /\ state'.isARSession) ]_vars

\* C16: when the host ends the session the user is in (the store's session
\* or an inline session, in a state with isARSession and without the
\* fallback mode) and no other session is left, isARSession is false after
\* the step: the enter button is rendered again.
C16_HostEndReturnsToIdle ==
    [][ ((HostEndSession \/ \E i \in 1..MaxInline : HostEndInline(i))
         /\ state.isARSession /\ ~state.useFallbackMode
         /\ storeSession' = NoSession /\ inlineLive' = {})
            => ~state'.isARSession ]_vars

\* C16, its case: the host has ended an inline session that was in use.
C16_InlineSessionEndedByHost ==
    /\ state.arStatus = "ended" /\ ~state.isARSession
    /\ state.errorDetails = "enterAR"
    /\ storeSession = NoSession /\ inlineLive = {}
    /\ exitPc = "idle"

\* C17: once the fallback mode has started and until the user acts again
\* (SpecUnattended: no click on the enter or exit button while videoStream is
\* set), the page does not show the native tier: never isARSession without
\* useFallbackMode, the condition under which the Reticle is mounted.
C17_NoUpwardMoveWithoutUser ==
    state.videoStream # NoStream => ~ShowsReticle(state)

\* A rendered object that FallbackAnchoredModel draws, present before and
\* after the step.
FallbackObject(i) ==
    /\ i \in 1..Len(state.objects)
    /\ i \in 1..Len(models)
    /\ ModelKind(state.objects[i]) = "Fallback"

\* C19: given worldPosition (0,0,-3) and a camera pose at the origin with
\* zero rotation, FallbackAnchoredModel's frame callback sets the group's
\* local position to (0,0,-3), whether the pose carries a quaternion or only
\* Euler angles.
C19_ZeroPoseKeepsWorldPosition ==
    [][ \A i \in 1..MaxObjects :
          (/\ FallbackObject(i)
           /\ state.objects[i].position = "pw"
           /\ cameraPose.position = Origin
           /\ cameraPose.rotation = ZeroRotation
           /\ Frame)
          => /\ i \in 1..Len(models')
             /\ models'[i].position = "pw" ]_vars

\* C19 witness: an object at (0,0,-3) drawn at (0,0,-3) against a
\* zero-rotation pose that carries a quaternion.
C19_DrawnAtWorldPositionByQuaternion ==
    \E i \in 1..MaxObjects :
        /\ FallbackObject(i)
        /\ state.objects[i].position = "pw"
        /\ models[i].position = "pw"
        /\ cameraPose.rotation = ZeroRotation
        /\ cameraPose.quaternion # NoQuaternion

\* C18: for an object placed in the fallback mode, a frame in which the
\* orientation angles are those of the commit (whatever they were, non-zero
\* included) draws the object at the position committed at placement.
C18_UnchangedAnglesKeepCommittedPosition ==
    [][ \A i \in 1..MaxObjects :
          (/\ FallbackObject(i)
           /\ cameraPoseRef.rotation = models[i].poseAtMount
           /\ cameraPose.rotation = models[i].poseAtMount
           /\ Frame)
          => /\ i \in 1..Len(models')
             /\ models'[i].position = state.objects[i].position ]_vars

\* C18 case: an object committed under non-zero angles has been drawn while
\* the angles were still those of the commit.
C18_DrawnUnderCommitAngles ==
    \E i \in 1..MaxObjects :
        /\ FallbackObject(i)
        /\ models[i].poseAtMount # ZeroRotation
        /\ cameraPoseRef.rotation = models[i].poseAtMount
        /\ cameraPose.rotation = models[i].poseAtMount
        /\ models[i].position # Origin

\* C20: the camera pose a fallback record is drawn against is the pose that
\* was in effect when the record was committed; later sensor events do not
\* change it.
C20_ReferencePoseFixedAtCommit ==
    \A i \in 1..MaxObjects :
        FallbackObject(i) => cameraPose.rotation = models[i].poseAtMount

\* C21: the ids of the objects in `objects` are pairwise distinct, whatever
\* the clock readings of the placements and the order in which they finish.
C21_ObjectIdsDistinct ==
    \A i, j \in 1..Len(state.objects) :
        i # j => state.objects[i].id # state.objects[j].id

\* A step of handlePlace that can reach setObjects.
PlacementStep ==
    \/ ReticleClickUpTo(MaxPlaced)
    \/ FallbackClickUpTo(MaxPlaced)
    \/ \E p \in 1..MaxPlace : PlaceAnchor1Settles(p)
    \/ \E p \in 1..MaxPlace : PlaceAnchor2Settles(p)

\* C22: objects changes only by a placement appending one record to it or
\* by clearScene emptying it; handleExitAR, the end of a session, the
\* downgrades of handleEnterAR and refreshCameras leave it as it is.
C22_ObjectsOnlyAppendedOrCleared ==
    [][ \/ state'.objects = state.objects
        \/ ClearScene /\ state'.objects = <<>>
        \/ /\ PlacementStep
           /\ Len(state'.objects) = Len(state.objects) + 1
           /\ SubSeq(state'.objects, 1, Len(state.objects)) = state.objects
      ]_vars

\* C22 witness: two objects are still there after handleExitAR has run, in a
\* run whose store.enterAR threw.
C22_ObjectsKeptAfterExit ==
    /\ Len(state.objects) = 2
    /\ state.arStatus = "exited"
    /\ state.errorDetails = "enterAR"

\* C23: every record in objects is exactly one of the three variants: it has
\* an anchor and no fixed matrix, or a fixed matrix and no anchor, or neither
\* and was placed in the fallback mode (anchored is then true).
C23_ExactlyOneVariant ==
    \A i \in 1..Len(state.objects) :
        LET obj == state.objects[i]
        IN  \/ obj.anchor # NoAnchor /\ obj.hitMatrix = NoMatrix
            \/ obj.anchor = NoAnchor /\ obj.hitMatrix # NoMatrix
            \/ obj.anchor = NoAnchor /\ obj.hitMatrix = NoMatrix /\ obj.anchored

\* A rendered object with a native anchor, present before and after the step.
AnchorObject(i) ==
    /\ i \in 1..Len(state.objects)
    /\ i \in 1..Len(models)
    /\ state.objects[i].anchor # NoAnchor

C25_FrameCallbackReturns ==
    (component = "ARScene" /\ lastSample # "never")
        => OnXRFrameCompletion(lastSample) = "returns"

\* C26: while the mounted tracker has no listener because the permission
\* was denied or the request rejected, or because the API is absent, no
\* pose is delivered: cameraPoseRef is not written.
C26_SilentTrackerDeliversNoPose ==
    [][ tracker = "silent" => cameraPoseRef' = cameraPoseRef ]_vars

\* C26 case: the permission request of the mounted tracker has been denied.
C26_PermissionDenied ==
    /\ tracker = "silent"
    /\ orientationApi = "asks"
    /\ state.useFallbackMode

\* The step in which the permission request of the mounted tracker is denied
\* or rejected.
SensorDenied == tracker = "asking" /\ tracker' = "silent"

\* The step in which a getUserMedia of refreshCameras or of startFallbackMode
\* is rejected.
CameraDenied ==
    \/ refresh.pc = "gum" /\ refresh'.pc = "enum"
    \/ \E e \in 1..MaxEnter :
          /\ enter[e].pc \in FallbackSites
          /\ enter'[e].pc # enter[e].pc
          /\ liveStreams' = liveStreams

\* C27: every permission denial, of the orientation sensor or of the camera,
\* is shown to the user: the step changes arStatus or errorDetails.
C27_DenialIsSurfaced ==
    [][ (SensorDenied \/ CameraDenied)
          => \/ state'.arStatus # state.arStatus
             \/ state'.errorDetails # state.errorDetails ]_vars

\* C28: the stored hit is discarded when it is not refreshed: once the
\* session has ended (and before there is one) App's hitMatrix and ARScene's
\* currentHitMatrixRef are null, so that no placement uses the hit of an
\* earlier session.
C28_NoStoredHitWithoutSession ==
    /\ (component = "App" /\ storeSession = NoSession)
          => state.hitMatrix = NoMatrix
    /\ (component = "ARScene" /\ sceneSession # "live")
          => currentHitMatrixRef = NoMatrix

\* C29: in the fallback mode a canvas click is a commit only once the
\* orientation sensor has produced a sample: while cameraPoseRef still holds
\* the pose of useRef (no event was delivered, or the permission was denied)
\* the click appends no object.
C29_NoCommitBeforeFirstSample ==
    [][ (/\ state.useFallbackMode
         /\ cameraPoseRef = InitialPose
         /\ FallbackClickUpTo(MaxObjects))
          => state'.objects = state.objects ]_vars

\* C29 case: an object was placed in the fallback mode while the mounted
\* tracker had no listener and no pose had ever been delivered.
C29_PlacedWithoutSample ==
    /\ state.useFallbackMode
    /\ tracker = "silent"
    /\ cameraPoseRef = InitialPose
    /\ \E i \in 1..MaxObjects : FallbackObject(i)

\* C30: the position FallbackAnchoredModel computes in a frame is the one
\* the pose in cameraPoseRef gives, the latest sensor reading, whether or
\* not App has rendered since handlePoseUpdate stored it.
C30_FrameUsesLatestPose ==
    [][ \A i \in 1..MaxObjects :
          \/ ~FallbackObject(i)
          \/ /\ i \in 1..Len(models')
             /\ models'[i].position =
                  FallbackFrame(state.objects[i], models[i],
                                cameraPoseRef).position
          \/ ~Frame ]_vars

\* C30 case: an object placed in the fallback mode has been drawn while
\* cameraPoseRef held a pose stored after App's last render.
C30_DrawnAgainstOlderPose ==
    \E i \in 1..MaxObjects :
        /\ FallbackObject(i)
        /\ cameraPoseRef.rotation # cameraPose.rotation
        /\ models[i].position # Origin

\* C31: the rotation handlePoseUpdate has stored is the reading of a sensor
\* event, (beta, alpha, -gamma), converted from degrees to radians once.
C31_AnglesConvertedOnce ==
    cameraPoseRef.quaternion # NoQuaternion
        => \E alpha \in EventAngles :
              cameraPoseRef.rotation =
                  <<DegToRad("0"), DegToRad(alpha), Negate(DegToRad("0"))>>

\* C32: handlePlace appends its record only after every anchor request it
\* awaits has settled, and appends one record: a step that leaves a request
\* of a placement pending appends nothing, and objects grows, by one record,
\* only in a step in which a handlePlace call ends.
C32_RecordAppendedAfterRequests ==
    [][ /\ Len(state'.objects) <= Len(state.objects) + 1
        /\ \A p \in 1..MaxPlace :
              place'[p].pc # "idle" /\ place'[p] # place[p]
                 => state'.objects = state.objects
        /\ Len(state'.objects) > Len(state.objects)
              => /\ InFlight' \subseteq InFlight
                 /\ \A i \in 1..Len(state.objects) :
                       state'.objects[i] = state.objects[i]
      ]_vars

\* C32 witness: an object is rendered while the second anchor request of a
\* later placement is pending.
C32_RequestPendingBesideObject ==
    /\ Len(state.objects) = 1
    /\ Len(models) = 1
    /\ \E p \in 1..MaxPlace : place[p].pc = "anchor2"

\* C33: in ARScene one frame callback request is outstanding while the
\* session is live and startAR has started the loop, whatever the frames
\* bring, and none before that or once the session has ended.
C33_OneFrameRequestOutstanding ==
    component = "ARScene" =>
        rafPending = IF sceneSession = "live" /\ sceneListener THEN 1 ELSE 0

\* C33 witness: the loop is running, and a frame callback that read hit-test
\* results has run.
C33_LoopRunningAfterFrame ==
    /\ component = "ARScene"
    /\ sceneSession = "live"
    /\ rafPending = 1
    /\ lastSample = "nullpose"

\* C34: a placement never changes the tier: whatever handlePlace's outcome
\* (anchor created, requests rejected, reference space request thrown, no
\* session), its steps leave isARSession, useFallbackMode and videoStream as
\* they are and open or close no session and no camera stream.
C34_PlacementKeepsTier ==
    [][ \/ /\ state'.isARSession = state.isARSession
           /\ state'.useFallbackMode = state.useFallbackMode
           /\ state'.videoStream = state.videoStream
           /\ resourceVars' = resourceVars
        \/ ~PlacementStep ]_vars

\* C34 witness: on a device with requestAnchor a placement in a live native
\* session has ended without an anchor, and the native tier is still on.
C34_NativeTierAfterFailedAnchor ==
    /\ hasRequestAnchor
    /\ storeSession # NoSession
    /\ state.isARSession /\ ~state.useFallbackMode
    /\ \E i \in 1..Len(state.objects) :
          /\ state.objects[i].anchor = NoAnchor
          /\ state.objects[i].hitMatrix # NoMatrix

\* C35: once a record is in objects, its kind, model reference, scale and
\* anchor data stay as they are, and what is drawn for it does not change
\* when the type buttons, the URL input or the size buttons are used.
C35_PlacedObjectImmutable ==
    [][\A i \in 1..Len(state.objects) :
         i <= Len(state'.objects)
         => /\ state'.objects[i] = state.objects[i]
            /\ Drawn(ModelProps(state.objects[i]))' =
                 Drawn(ModelProps(state.objects[i]))]_vars

\* An object of kind 'model' placed while the URL input was empty.
C35_ModelPlacedWithEmptyUrl ==
    \E i \in 1..Len(state.objects) :
        /\ state.objects[i].type = "model"
        /\ state.objects[i].modelUrl = EmptyUrl
        /\ state.modelUrl = DefaultModelUrl

\* The step of call e in which a startFallbackMode call fails: it throws
\* because the closure has no camera selected, or its getUserMedia rejects
\* (the call was suspended at a fallback site and no stream is opened).
FallbackFails(e) ==
    \/ /\ enter[e].pc \in FallbackSites
       /\ enter'[e].pc \in {"idle", "fb3"}
       /\ enter'[e].pc # enter[e].pc
       /\ liveStreams' = liveStreams
    \/ /\ enter[e].sel = NoCamera
       /\ enter'[e].pc = "idle"
       /\ \/ enter[e].pc = "wait100" /\ storeSession = NoSession
          \/ enter[e].pc = "inline" /\ inlineLive' = inlineLive
          \/ enter[e].pc = "inlineEnd"

FailureStatuses == {"startFailed", "startFailedHint"}

\* C36: a failed startFallbackMode leaves isARSession false, useFallbackMode
\* false and no camera stream in videoStream, and the handleEnterAR call that
\* made it ends (the rejection is caught) showing a failure status.
C36_FailedFallbackLeavesNothing ==
    [][\A e \in 1..MaxEnter :
         FallbackFails(e)
         => /\ ~state'.isARSession
            /\ ~state'.useFallbackMode
            /\ state'.videoStream = NoStream
            /\ enter'[e].pc = "idle" => state'.arStatus \in FailureStatuses]_vars

\* A handleEnterAR call has ended in a failed startFallbackMode.
C36_FallbackFailed ==
    /\ state.arStatus \in FailureStatuses
    /\ \A e \in 1..MaxEnter : enter[e].pc = "idle"

\* C37: in ARScene, once startAR has returned false or the host has ended the
\* session (also while the setup is still awaited, before the 'end' listener
\* is registered), sessionRef, hitTestSourceRef and currentHitMatrixRef are
\* null and the reticle is invisible.
C37_RefsClearedWithoutLiveSession ==
    (component = "ARScene"
     /\ (sceneSession = "ended" \/ (scenePc = "idle" /\ ~sceneListener)))
    => /\ ~sessionRef
       /\ ~hitTestSourceRef
       /\ currentHitMatrixRef = NoMatrix
       /\ ~reticleVisible

\* startAR has returned false after requestSession had given it a session.
C37_SetupFailed ==
    /\ component = "ARScene"
    /\ scenePc = "idle"
    /\ sceneSession # "none"
    /\ ~sceneListener
    /\ ~hitTestSourceRef

\* C38: in every state of App, useFallbackMode implies isARSession and a
\* live camera stream in videoStream, and a non-null videoStream implies
\* useFallbackMode.
C38_FallbackFlagsAgree ==
    component = "App"
    => /\ state.useFallbackMode
          => (state.isARSession /\ state.videoStream \in liveStreams)
       /\ state.videoStream # NoStream => state.useFallbackMode

\* The fallback mode is on.
C38_InFallbackMode ==
    /\ state.useFallbackMode
    /\ state.isARSession
    /\ state.videoStream \in liveStreams

\* C39: every handleEnterAR call that has started ends, given that each
\* promise it awaits settles; when it ends, isARSession is true or the status
\* is no longer the 'starting' one.
C39_EnterRequestSettles ==
    /\ \A e \in 1..MaxEnter : (enter[e].pc # "idle") ~> (enter[e].pc = "idle")
    /\ [][\A e \in 1..MaxEnter :
            (enter[e].pc # "idle" /\ enter'[e].pc = "idle")
            => (state'.isARSession \/ state'.arStatus # "starting")]_vars

\* A call has gone through every fallback and ended without a session.
C39_SettledWithoutSession ==
    /\ enterClicks > 0
    /\ \A e \in 1..MaxEnter : enter[e].pc = "idle"
    /\ ~state.isARSession
    /\ state.arStatus = "startFailedHint"

\* C40: once DeviceOrientationTracker has unmounted, no orientation event
\* reaches onPoseUpdate (cameraPoseRef is not written), also when the
\* permission request settles after the unmount: no 'deviceorientation'
\* listener of an unmounted tracker is registered.
C40_NoPoseAfterUnmount ==
    [][tracker = "unmounted"
       => (cameraPoseRef' = cameraPoseRef /\ ~strayListener')]_vars

\* The permission was granted after the tracker had unmounted.
C40_GrantedAfterUnmount ==
    /\ tracker = "unmounted"
    /\ orientationApi = "asks"
    /\ ~strayAsk
    /\ strayListener

====
